---- MODULE Spec2Model ----
(***************************************************************************)
(* Model of window.Submap.resample (src/modules/submap.js): resampling of  *)
(* a parent map into new ambient grid/pack/notes and the migration of the  *)
(* parent's overlay collections.                                           *)
(*                                                                         *)
(* JavaScript arrays are functions over 0..n-1 (cell id 0 is a real cell). *)
(* Coordinates are integers in thousandths of a map unit, so that          *)
(* rn(x, 2) (rounding to two decimals) is a real rounding.                 *)
(* Objects shared by reference between the parent map and the new map are  *)
(* modelled by value, and an in-place write to a shared object updates     *)
(* every collection that holds it.                                         *)
(***************************************************************************)
EXTENDS Integers, Sequences, FiniteSets, TLC

VARIABLES
  pc,         \* position in resample()
  options,    \* the ambient (global) options object
  arg,        \* the options argument of resample(parentMap, options)
  parentMap,  \* the parentMap argument: [grid, pack, notes]
  grid,       \* ambient global grid
  pack,       \* ambient global pack
  notes,      \* ambient global notes
  before,     \* history: parentMap and the ambient map when resample was called
  hBefore,    \* history: grid.cells.h on entry to smoothHeightmap
  ran         \* history: the optional post-processing steps that ran

vars == <<pc, options, arg, parentMap, grid, pack, notes, before, hBefore, ran>>

----------------------------------------------------------------------------
(* Bounds of the model *)

\* lattice points of the new grid
GridCells == 3
\* lattice points of the parent grid
ParentCells == 2
\* entities 1..MaxEntity in each overlay collection (slot 0 is the sentinel)
MaxEntity == 2
\* markers of the parent map
MaxMarkers == 2

\* elevations the parent grid is drawn from (water, land near sea level, high land)
HeightValues == {10, 21, 40}
\* projection(x, y) = (x + dx, y + dy); inverse(x, y) = (x - dx, y - dy)
Shifts == {<<0, 0>>, <<2004, 0>>}

\* the map extent, shared by the parent map and the new map
graphWidth == 6000
graphHeight == 1000

undefined == 0 - 1

----------------------------------------------------------------------------
(* Helpers of the environment *)

Length(a) == Cardinality(DOMAIN a)

EmptyObject == <<>>

projection(o, x, y) == <<x + o.shift[1], y + o.shift[2]>>
inverse(o, x, y) == <<x - o.shift[1], y - o.shift[2]>>

\* rn(v, 2) = Math.round(v * 100) / 100, on thousandths
rn(v) == ((v + 5) \div 10) * 10

\* generateGrid(): a one-row lattice of n points across the map, with
\* left/right neighbours
generateGrid(n) ==
  [points |-> [k \in 0..(n - 1) |->
                 <<(graphWidth \div n) * k + (graphWidth \div n) \div 2, graphHeight \div 2>>],
   cells |-> [c |-> [k \in 0..(n - 1) |-> {j \in 0..(n - 1) : j = k - 1 \/ j = k + 1}]]]

\* the j-th (0-based) smallest element of a set of naturals
Nth(S, j) == CHOOSE k \in S : Cardinality({m \in S : m < k}) = j

\* reGraph(): the pack keeps every land point of the grid and the water
\* points in keep (the coastal ones), in grid order; g is the back-reference
reGraph(g, keep) ==
  LET kept == {k \in DOMAIN g.points : g.cells.h[k] >= 20 \/ k \in keep}
      n == Cardinality(kept)
  IN [cells |-> [i |-> [j \in 0..(n - 1) |-> j],
                 p |-> [j \in 0..(n - 1) |-> g.points[Nth(kept, j)]],
                 g |-> [j \in 0..(n - 1) |-> Nth(kept, j)],
                 h |-> [j \in 0..(n - 1) |-> g.cells.h[Nth(kept, j)]]]]

Dist2(d, x, y) == (d[1] - x) * (d[1] - x) + (d[2] - y) * (d[2] - y)

\* quadtree.find(x, y, Infinity): the points of data nearest to (x, y); the
\* tree returns one of them, and nothing (undefined) when data is empty
QuadtreeFind(data, x, y) ==
  {d \in data : \A e \in data : Dist2(d, x, y) <= Dist2(e, x, y)}

\* one result of find per query point of Q (none when data is empty and Q is not)
RECURSIVE Finds(_, _)
Finds(data, Q) ==
  IF Q = {} THEN {<<>>}
  ELSE LET q == CHOOSE q \in Q : TRUE
       IN {[p \in DOMAIN f \cup {q} |-> IF p = q THEN d ELSE f[p]] :
             f \in Finds(data, Q \ {q}), d \in QuadtreeFind(data, q[1], q[2])}

\* graph.cells.q: the spatial index over all cells of a graph
CellsQ(graph) == {<<graph.cells.p[c][1], graph.cells.p[c][2], c>> : c \in DOMAIN graph.cells.p}

----------------------------------------------------------------------------
(* submap.js *)

isWater(graph, cellId) == graph.cells.h[cellId] < 20

isInMap(x, y) == x >= 0 /\ x <= graphWidth /\ y >= 0 /\ y <= graphHeight

\* storing a non-negative number num/den into a Uint8Array element
ToUint8(num, den) == (num \div den) % 256

\* one callback of smoothHeightmap: the mean of the point and its neighbours,
\* as they are now, clamped to the class the point has now
RECURSIVE SumHeights(_, _)
SumHeights(h, S) ==
  IF S = {} THEN 0 ELSE LET c == CHOOSE c \in S : TRUE IN h[c] + SumHeights(h, S \ {c})

smoothMeanUnclamped(g, c) ==
  LET sum == g.cells.h[c] + SumHeights(g.cells.h, g.cells.c[c])
      n == 1 + Cardinality(g.cells.c[c])
  IN ToUint8(sum, n)

smoothCell(g, c) ==
  LET sum == g.cells.h[c] + SumHeights(g.cells.h, g.cells.c[c])
      n == 1 + Cardinality(g.cells.c[c])
  IN IF isWater(g, c)
       THEN (IF sum < 19 * n THEN ToUint8(sum, n) ELSE 19)
       ELSE (IF sum > 20 * n THEN ToUint8(sum, n) ELSE 20)

RECURSIVE smoothFrom(_, _)
smoothFrom(g, c) ==
  IF c >= Length(g.cells.h) THEN g
  ELSE smoothFrom([g EXCEPT !.cells.h[c] = smoothCell(g, c)], c + 1)

smoothHeightmap(g) == smoothFrom(g, 0)

\* the queries resamplePrimaryGridData and depressRivers make: inverse of each point
InversePoints(o, points) == {inverse(o, points[k][1], points[k][2]) : k \in DOMAIN points}

\* resample, lines 15-19
ResampleBegin ==
  /\ pc = "resample"
  /\ grid' = generateGrid(GridCells)
  /\ pack' = EmptyObject
  /\ notes' = parentMap.notes
  /\ pc' = "resamplePrimaryGridData"
  /\ UNCHANGED <<options, arg, parentMap, before, hBefore, ran>>

\* resamplePrimaryGridData, lines 59-71, when find() finds a parent cell
SampleGrid ==
  /\ pc = "resamplePrimaryGridData"
  /\ \E f \in Finds(CellsQ(parentMap.pack), InversePoints(arg, grid.points)) :
       LET parentGridCell(k) ==
             parentMap.pack.cells.g[f[inverse(arg, grid.points[k][1], grid.points[k][2])][3]]
       IN grid' = [points |-> grid.points,
                   cells |-> [c |-> grid.cells.c,
                              h |-> [k \in DOMAIN grid.points |-> parentMap.grid.cells.h[parentGridCell(k)]],
                              temp |-> [k \in DOMAIN grid.points |-> parentMap.grid.cells.temp[parentGridCell(k)]],
                              prec |-> [k \in DOMAIN grid.points |-> parentMap.grid.cells.prec[parentGridCell(k)]]]]
  /\ pc' = "line73"
  /\ UNCHANGED <<options, arg, parentMap, pack, notes, before, hBefore, ran>>

\* resamplePrimaryGridData, lines 59-65, when the parent has no cell: find()
\* returns undefined and reading [2] of it throws out of resample
SampleGridThrows ==
  /\ pc = "resamplePrimaryGridData"
  /\ CellsQ(parentMap.pack) = {}
  /\ grid.points # <<>>
  /\ grid' = [points |-> grid.points,
              cells |-> [c |-> grid.cells.c,
                         h |-> [k \in DOMAIN grid.points |-> 0],
                         temp |-> [k \in DOMAIN grid.points |-> 0],
                         prec |-> [k \in DOMAIN grid.points |-> 0]]]
  /\ pc' = "thrown"
  /\ UNCHANGED <<options, arg, parentMap, pack, notes, before, hBefore, ran>>

\* line 73, condition true
SmoothHeightmap ==
  /\ pc = "line73"
  /\ options.smoothHeightmap
  /\ hBefore' = grid.cells.h
  /\ grid' = smoothHeightmap(grid)
  /\ ran' = ran \cup {"smoothHeightmap"}
  /\ pc' = "line74"
  /\ UNCHANGED <<options, arg, parentMap, pack, notes, before>>

\* line 73, condition false
SkipSmoothHeightmap ==
  /\ pc = "line73"
  /\ ~options.smoothHeightmap
  /\ pc' = "line74"
  /\ UNCHANGED <<options, arg, parentMap, grid, pack, notes, before, hBefore, ran>>

\* line 74, condition true: depressRivers, lines 85-93 (line 87 iterates
\* grid.cells.points, read here as the points of the grid)
DepressRivers ==
  /\ pc = "line74"
  /\ options.depressRivers
  /\ \E f \in Finds(CellsQ(parentMap.pack), InversePoints(arg, grid.points)) :
       LET hasRiver(k) ==
             parentMap.pack.cells.r[f[inverse(arg, grid.points[k][1], grid.points[k][2])][3]] # 0
       IN grid' = [grid EXCEPT !.cells.h =
                     [k \in DOMAIN grid.points |->
                        IF hasRiver(k) /\ grid.cells.h[k] > 20
                          THEN grid.cells.h[k] - 1 ELSE grid.cells.h[k]]]
  /\ ran' = ran \cup {"depressRivers"}
  /\ pc' = "reGraph"
  /\ UNCHANGED <<options, arg, parentMap, pack, notes, before, hBefore>>

\* line 74, condition false
SkipDepressRivers ==
  /\ pc = "line74"
  /\ ~options.depressRivers
  /\ pc' = "reGraph"
  /\ UNCHANGED <<options, arg, parentMap, grid, pack, notes, before, hBefore, ran>>

\* resample, lines 23-39: the new pack is built from the grid
ReGraph ==
  /\ pc = "reGraph"
  /\ \E keep \in SUBSET {k \in DOMAIN grid.points : grid.cells.h[k] < 20} :
       pack' = reGraph(grid, keep)
  /\ pc' = "restoreSecondaryCellData"
  /\ UNCHANGED <<options, arg, parentMap, grid, notes, before, hBefore, ran>>

----------------------------------------------------------------------------
(* The parent maps and calls of the primary phase *)

ParentMaps ==
  {[grid |-> [points |-> generateGrid(ParentCells).points,
              cells |-> [c |-> generateGrid(ParentCells).cells.c,
                         h |-> h,
                         temp |-> [k \in DOMAIN h |-> 5 + k],
                         prec |-> [k \in DOMAIN h |-> 7 + k]]],
    keep |-> keep]
     : h \in [0..(ParentCells - 1) -> HeightValues],
       keep \in {{}, 0..(ParentCells - 1)}}

InitPrimary ==
  /\ pc = "resample"
  /\ options \in [smoothHeightmap : BOOLEAN, depressRivers : BOOLEAN]
  /\ arg \in [smoothHeightmap : BOOLEAN, depressRivers : BOOLEAN, shift : Shifts, scale : {2}]
  /\ \E m \in ParentMaps :
       \E r \in [DOMAIN reGraph(m.grid, m.keep).cells.i -> {0, 1}] :
         parentMap = [grid |-> m.grid,
                      pack |-> [cells |-> [i |-> reGraph(m.grid, m.keep).cells.i,
                                           p |-> reGraph(m.grid, m.keep).cells.p,
                                           g |-> reGraph(m.grid, m.keep).cells.g,
                                           h |-> reGraph(m.grid, m.keep).cells.h,
                                           r |-> r]],
                      notes |-> <<"note">>]
  /\ grid = parentMap.grid
  /\ pack = parentMap.pack
  /\ notes = parentMap.notes
  /\ before = [parentMap |-> parentMap, grid |-> grid, pack |-> pack, notes |-> notes]
  /\ hBefore = <<>>
  /\ ran = {}

NextPrimary ==
  \/ ResampleBegin
  \/ SampleGrid
  \/ SampleGridThrows
  \/ SmoothHeightmap
  \/ SkipSmoothHeightmap
  \/ DepressRivers
  \/ SkipDepressRivers
  \/ ReGraph

SpecPrimary == InitPrimary /\ [][NextPrimary]_vars

----------------------------------------------------------------------------
(* submap.js: the overlay restorer *)

\* obj.field = value
Assign(obj, field, value) ==
  [f \in DOMAIN obj \cup {field} |-> IF f = field THEN value ELSE obj[f]]

\* new Set(array)
SetOf(a) == {a[k] : k \in DOMAIN a}

groupCellsByType(graph) ==
  [land |-> {<<graph.cells.p[c][1], graph.cells.p[c][2], c>> :
               c \in {d \in DOMAIN graph.cells.p : ~isWater(graph, d)}},
   water |-> {<<graph.cells.p[c][1], graph.cells.p[c][2], c>> :
               c \in {d \in DOMAIN graph.cells.p : isWater(graph, d)}}]

\* the cell ids find(...)?.[2] gives for the queries Q: undefined where the
\* tree is empty
FindCells(data, Q) ==
  IF data = {} THEN {[q \in Q |-> undefined]}
  ELSE {[q \in Q |-> f[q][3]] : f \in Finds(data, Q)}

\* {...entity, removed: true, lock: false}
markRemovedLocked(e) == [e EXCEPT !.removed = TRUE]

markRemovedRenumbered(e) == [e EXCEPT !.removed = TRUE, !.lock = FALSE, !.i = 0]

markRemoved(e) == [e EXCEPT !.removed = TRUE, !.lock = FALSE]

\* validX.has(id), validX = new Set(pack.cells.X)
has(field, id) == id \in SetOf(field)

\* getPolesOfInaccessibility(pack, cellId => field[cellId])[id]: the position
\* of a cell of the region that is farthest from the cells outside it
poleOf(pk, field, id) ==
  LET region == {c \in DOMAIN field : field[c] = id}
      outside == DOMAIN field \ region
      reach(c) == {Dist2(pk.cells.p[c], pk.cells.p[d][1], pk.cells.p[d][2]) : d \in outside}
      score(c) == IF outside = {} THEN 0 ELSE CHOOSE m \in reach(c) : \A o \in reach(c) : m <= o
      best == CHOOSE c \in region : \A d \in region : score(c) >= score(d)
  IN pk.cells.p[best]

\* the projected and rounded position of a parent cell
projectedCell(o, parent, cell) ==
  LET xy == projection(o, parent.pack.cells.p[cell][1], parent.pack.cells.p[cell][2])
  IN <<rn(xy[1]), rn(xy[2])>>

\* lines 126-130 and 194-198: the new center of a surviving culture or religion
recenter(o, parent, pk, field, e, fc) ==
  LET xy == projectedCell(o, parent, e.center)
      centerCoords == IF isInMap(xy[1], xy[2]) THEN xy ELSE poleOf(pk, field, e.i)
  IN [e EXCEPT !.center = fc[centerCoords]]

\* the points restoreCultures / restoreReligions may pass to findCell
recenterQueries(o, parent, pk, field, coll) ==
  {projectedCell(o, parent, coll[k].center) : k \in DOMAIN coll}
    \cup {poleOf(pk, field, id) : id \in SetOf(field)}

\* restoreCultures, lines 119-132
restoreCultures(o, parent, pk, fc) ==
  [k \in DOMAIN parent.pack.cultures |->
     LET culture == parent.pack.cultures[k]
     IN IF culture.i = 0 \/ culture.removed THEN culture
        ELSE IF ~has(pk.cells.culture, culture.i) THEN markRemoved(culture)
        ELSE recenter(o, parent, pk, pk.cells.culture, culture, fc)]

\* restoreReligions, lines 186-200
restoreReligions(o, parent, pk, fc) ==
  [k \in DOMAIN parent.pack.religions |->
     LET religion == parent.pack.religions[k]
     IN IF religion.i = 0 \/ religion.removed THEN religion
        ELSE IF ~has(pk.cells.religion, religion.i) THEN markRemoved(religion)
        ELSE recenter(o, parent, pk, pk.cells.religion, religion, fc)]

\* lines 181-182 and 215-216: the capital's cell, or the cell at the pole
capitalOrPole(pk, field, e, capital, fc) ==
  IF ~pk.burgs[capital].removed THEN pk.burgs[capital].cell
  ELSE fc[poleOf(pk, field, e.i)]

\* restoreStates, lines 160-184 (the regiments of state.military, lines
\* 166-171, carry no index, removed flag or center and are left out)
restoreStates(o, parent, pk, fc) ==
  [k \in DOMAIN parent.pack.states |->
     LET state == parent.pack.states[k]
     IN IF state.i = 0 \/ state.removed THEN state
        ELSE IF ~has(pk.cells.state, state.i) THEN markRemoved(state)
        ELSE [state EXCEPT
                !.neighbors = {id \in state.neighbors : has(pk.cells.state, id)},
                !.center = capitalOrPole(pk, pk.cells.state, state, state.capital, fc)]]

\* restoreProvinces, lines 202-218: the provinces still on the map are the
\* parent's own objects, and lines 213-217 write their center
restoreProvinces(o, parent, pk, fc) ==
  [k \in DOMAIN parent.pack.provinces |->
     LET province == parent.pack.provinces[k]
     IN IF province.i = 0 \/ province.removed THEN province
        ELSE IF ~has(pk.cells.province, province.i) THEN markRemoved(province)
        ELSE [province EXCEPT
                !.center = capitalOrPole(pk, pk.cells.province, province, province.burg, fc)]]

\* the parent's province objects after restoreProvinces
provincesWritten(parent, restored) ==
  [k \in DOMAIN parent.pack.provinces |->
     LET province == parent.pack.provinces[k]
     IN IF province.i # 0 /\ ~province.removed /\ ~restored[k].removed
          THEN restored[k] ELSE province]

\* line 146: !cell
notCell(cell) == cell = undefined \/ cell = 0

\* line 150: pack.cells.burg[cell]
cellNeverHasBurg(cellsBurg, cell) == FALSE

cellHasBurg(cellsBurg, cell) == cellsBurg[cell] # 0

\* the query restoreBurgs makes for a burg, lines 141-142
burgQuery(o, burg) ==
  LET xy == projection(o, burg.x, burg.y) IN <<rn(xy[1]), rn(xy[2])>>

\* one callback of restoreBurgs, lines 138-156, on acc = [burgs, cellsBurg,
\* parentBurgs]: the burgs returned so far, pack.cells.burg and the parent's
\* burg objects
restoreBurg(o, acc, k, fl) ==
  LET burg == acc.parentBurgs[k]
      scaled == [burg EXCEPT !.population = @ * o.scale]
      parentBurgs == [acc.parentBurgs EXCEPT ![k] = scaled]
      xy == burgQuery(o, burg)
      cell == fl[xy]
      out(b) == [burgs |-> Assign(acc.burgs, k, b), cellsBurg |-> acc.cellsBurg,
                 parentBurgs |-> parentBurgs]
  IN IF burg.i = 0 \/ burg.removed
       THEN [burgs |-> Assign(acc.burgs, k, burg), cellsBurg |-> acc.cellsBurg,
             parentBurgs |-> acc.parentBurgs]
     ELSE IF ~isInMap(xy[1], xy[2]) THEN out(markRemoved(scaled))
     ELSE IF notCell(cell) THEN out(markRemoved(scaled))
     ELSE IF cellHasBurg(acc.cellsBurg, cell) THEN out(markRemoved(scaled))
     ELSE [burgs |-> Assign(acc.burgs, k,
                            [scaled EXCEPT !.x = xy[1], !.y = xy[2], !.cell = cell]),
           cellsBurg |-> [acc.cellsBurg EXCEPT ![cell] = burg.i % 65536],
           parentBurgs |-> parentBurgs]

RECURSIVE restoreBurgsFrom(_, _, _, _)
restoreBurgsFrom(o, acc, k, fl) ==
  IF k >= Length(acc.parentBurgs) THEN acc
  ELSE restoreBurgsFrom(o, restoreBurg(o, acc, k, fl), k + 1, fl)

\* restoreBurgs, lines 134-158
restoreBurgs(o, parent, pk, fl) ==
  restoreBurgsFrom(o, [burgs |-> <<>>, cellsBurg |-> pk.cells.burg,
                       parentBurgs |-> parent.pack.burgs], 0, fl)

\* Markers.deleteMarker(id): the marker leaves pack.markers
deleteMarker(markers, id) ==
  LET kept == {k \in DOMAIN markers : markers[k].i # id}
  IN [j \in 0..(Cardinality(kept) - 1) |-> markers[Nth(kept, j)]]

\* one callback of restoreMarkers, lines 223-229, on acc = [markers,
\* parentMarkers]: pack.markers and the array being iterated, whose objects
\* pack.markers shares
restoreMarker(o, acc, k, fc) ==
  LET marker == acc.parentMarkers[k]
      xy == projection(o, marker.x, marker.y)
      deleted == IF ~isInMap(xy[1], xy[2]) THEN deleteMarker(acc.markers, marker.i)
                 ELSE acc.markers
      written == [marker EXCEPT !.x = rn(xy[1]), !.y = rn(xy[2]), !.cell = fc[xy]]
  IN [markers |-> [j \in DOMAIN deleted |->
                     IF deleted[j].i = marker.i THEN written ELSE deleted[j]],
      parentMarkers |-> [acc.parentMarkers EXCEPT ![k] = written]]

RECURSIVE restoreMarkersFrom(_, _, _, _)
restoreMarkersFrom(o, acc, k, fc) ==
  IF k >= Length(acc.parentMarkers) THEN acc
  ELSE restoreMarkersFrom(o, restoreMarker(o, acc, k, fc), k + 1, fc)

\* restoreMarkers, lines 220-231
restoreMarkers(o, parent, fc) ==
  restoreMarkersFrom(o, [markers |-> parent.pack.markers,
                         parentMarkers |-> parent.pack.markers], 0, fc)

\* restoreSecondaryCellData, lines 95-117, when every new land cell finds a
\* parent land cell
RestoreSecondaryCellData ==
  /\ pc = "restoreSecondaryCellData"
  /\ LET land == groupCellsByType(parentMap.pack).land
         newLand == {c \in DOMAIN pack.cells.i : ~isWater(pack, c)}
         q(c) == inverse(arg, pack.cells.p[c][1], pack.cells.p[c][2])
     IN \E f \in Finds(land, {q(c) : c \in newLand}) :
          LET copy(field) == [c \in DOMAIN pack.cells.i |->
                                IF c \in newLand THEN field[f[q(c)][3]] % 65536 ELSE 0]
          IN pack' = [pack EXCEPT !.cells =
                        [i |-> pack.cells.i, p |-> pack.cells.p, g |-> pack.cells.g,
                         h |-> pack.cells.h,
                         culture |-> copy(parentMap.pack.cells.culture),
                         state |-> copy(parentMap.pack.cells.state),
                         burg |-> [c \in DOMAIN pack.cells.i |-> 0],
                         religion |-> copy(parentMap.pack.cells.religion),
                         province |-> copy(parentMap.pack.cells.province)]]
  /\ pc' = "restoreCultures"
  /\ UNCHANGED <<options, arg, parentMap, grid, notes, before, hBefore, ran>>

\* restoreSecondaryCellData, lines 95-110, when the parent has no land cell:
\* find() returns undefined for the first new land cell and reading [2] throws
RestoreSecondaryCellDataThrows ==
  /\ pc = "restoreSecondaryCellData"
  /\ groupCellsByType(parentMap.pack).land = {}
  /\ \E c \in DOMAIN pack.cells.i : ~isWater(pack, c)
  /\ pack' = [pack EXCEPT !.cells =
                [i |-> pack.cells.i, p |-> pack.cells.p, g |-> pack.cells.g,
                 h |-> pack.cells.h,
                 culture |-> [c \in DOMAIN pack.cells.i |-> 0],
                 state |-> [c \in DOMAIN pack.cells.i |-> 0],
                 burg |-> [c \in DOMAIN pack.cells.i |-> 0],
                 religion |-> [c \in DOMAIN pack.cells.i |-> 0],
                 province |-> [c \in DOMAIN pack.cells.i |-> 0]]]
  /\ pc' = "thrown"
  /\ UNCHANGED <<options, arg, parentMap, grid, notes, before, hBefore, ran>>

RestoreCultures ==
  /\ pc = "restoreCultures"
  /\ \E fc \in FindCells(CellsQ(pack),
                         recenterQueries(arg, parentMap, pack, pack.cells.culture,
                                         parentMap.pack.cultures)) :
       pack' = Assign(pack, "cultures", restoreCultures(arg, parentMap, pack, fc))
  /\ pc' = "restoreBurgs"
  /\ UNCHANGED <<options, arg, parentMap, grid, notes, before, hBefore, ran>>

RestoreBurgs ==
  /\ pc = "restoreBurgs"
  /\ \E fl \in FindCells(groupCellsByType(pack).land,
                         {burgQuery(arg, parentMap.pack.burgs[k]) :
                            k \in {j \in DOMAIN parentMap.pack.burgs :
                                     parentMap.pack.burgs[j].i # 0}}) :
       LET r == restoreBurgs(arg, parentMap, pack, fl)
       IN /\ pack' = Assign([pack EXCEPT !.cells.burg = r.cellsBurg], "burgs", r.burgs)
          /\ parentMap' = [parentMap EXCEPT !.pack.burgs = r.parentBurgs]
  /\ pc' = "restoreStates"
  /\ UNCHANGED <<options, arg, grid, notes, before, hBefore, ran>>

RestoreStates ==
  /\ pc = "restoreStates"
  /\ \E fc \in FindCells(CellsQ(pack),
                         {poleOf(pack, pack.cells.state, id) : id \in SetOf(pack.cells.state)}) :
       pack' = Assign(pack, "states", restoreStates(arg, parentMap, pack, fc))
  /\ pc' = "restoreReligions"
  /\ UNCHANGED <<options, arg, parentMap, grid, notes, before, hBefore, ran>>

RestoreReligions ==
  /\ pc = "restoreReligions"
  /\ \E fc \in FindCells(CellsQ(pack),
                         recenterQueries(arg, parentMap, pack, pack.cells.religion,
                                         parentMap.pack.religions)) :
       pack' = Assign(pack, "religions", restoreReligions(arg, parentMap, pack, fc))
  /\ pc' = "restoreProvinces"
  /\ UNCHANGED <<options, arg, parentMap, grid, notes, before, hBefore, ran>>

RestoreProvinces ==
  /\ pc = "restoreProvinces"
  /\ \E fc \in FindCells(CellsQ(pack),
                         {poleOf(pack, pack.cells.province, id) :
                            id \in SetOf(pack.cells.province)}) :
       LET restored == restoreProvinces(arg, parentMap, pack, fc)
       IN /\ pack' = Assign(pack, "provinces", restored)
          /\ parentMap' = [parentMap EXCEPT !.pack.provinces = provincesWritten(parentMap, restored)]
  /\ pc' = "restoreMarkers"
  /\ UNCHANGED <<options, arg, grid, notes, before, hBefore, ran>>

RestoreMarkers ==
  /\ pc = "restoreMarkers"
  /\ \E fc \in FindCells(CellsQ(pack),
                         {projection(arg, parentMap.pack.markers[k].x, parentMap.pack.markers[k].y) :
                            k \in DOMAIN parentMap.pack.markers}) :
       LET r == restoreMarkers(arg, parentMap, fc)
       IN /\ pack' = Assign(pack, "markers", r.markers)
          /\ parentMap' = [parentMap EXCEPT !.pack.markers = r.parentMarkers]
  /\ pc' = "restoreZones"
  /\ UNCHANGED <<options, arg, grid, notes, before, hBefore, ran>>

----------------------------------------------------------------------------
(* The parent maps and calls of the restore phase *)

\* elevations of a water and of a land cell
CellHeights == {10, 21}
Scales == {2}

\* every overlay layer of the parent gives a land cell c to entity
\* (c % MaxEntity) + 1, and a water cell to none
owner(h, c) == IF h[c] < 20 THEN 0 ELSE (c % MaxEntity) + 1

\* parent cell (k - 1) % n: the center of entity k and the place of marker k
home(k, n) == (k + n - 1) % n

\* the parent cells the burgs sit on: the first two burgs anywhere (on the
\* same cell or not, in either order), the others on their home cell
BurgCells ==
  {f \in [1..MaxEntity -> 0..(ParentCells - 1)] :
     \A k \in 1..MaxEntity : k > 2 => f[k] = home(k, ParentCells)}

ParentPack(g, removed, burgCell) ==
  LET pk == reGraph(g, DOMAIN g.points)
      n == Length(pk.cells.i)
      overlay == [c \in DOMAIN pk.cells.i |-> owner(pk.cells.h, c)]
      entity(k) == [i |-> k, removed |-> k \in removed, lock |-> TRUE, center |-> home(k, n)]
      sentinel == [i |-> 0, removed |-> FALSE, lock |-> FALSE, center |-> 0]
  IN [cells |-> [i |-> pk.cells.i, p |-> pk.cells.p, g |-> pk.cells.g, h |-> pk.cells.h,
                 r |-> [c \in DOMAIN pk.cells.i |-> 0],
                 culture |-> overlay, state |-> overlay,
                 religion |-> overlay, province |-> overlay],
      cultures |-> [k \in 0..MaxEntity |-> IF k = 0 THEN sentinel ELSE entity(k)],
      religions |-> [k \in 0..MaxEntity |-> IF k = 0 THEN sentinel ELSE entity(k)],
      states |-> [k \in 0..MaxEntity |->
                    IF k = 0 THEN [i |-> 0, removed |-> FALSE, lock |-> FALSE, center |-> 0,
                                   capital |-> 0, neighbors |-> {}]
                    ELSE [i |-> k, removed |-> k \in removed, lock |-> TRUE,
                          center |-> home(k, n), capital |-> k,
                          neighbors |-> (1..MaxEntity) \ {k}]],
      provinces |-> [k \in 0..MaxEntity |->
                       IF k = 0 THEN [i |-> 0, removed |-> FALSE, lock |-> FALSE, center |-> 0,
                                      burg |-> 0]
                       ELSE [i |-> k, removed |-> k \in removed, lock |-> TRUE,
                             center |-> home(k, n), burg |-> k]],
      burgs |-> [k \in 0..MaxEntity |->
                   IF k = 0 THEN [i |-> 0]
                   ELSE [i |-> k, removed |-> k \in removed, lock |-> TRUE,
                         x |-> pk.cells.p[burgCell[k]][1], y |-> pk.cells.p[burgCell[k]][2],
                         cell |-> burgCell[k], population |-> 10 + k]],
      markers |-> [j \in 0..(MaxMarkers - 1) |->
                     [i |-> j, x |-> pk.cells.p[home(j + 1, n)][1],
                      y |-> pk.cells.p[home(j + 1, n)][2], cell |-> home(j + 1, n)]]]

InitRestore ==
  /\ pc = "restoreSecondaryCellData"
  /\ options = [smoothHeightmap |-> FALSE, depressRivers |-> FALSE]
  /\ arg \in [smoothHeightmap : {FALSE}, depressRivers : {FALSE}, shift : Shifts, scale : Scales]
  /\ \E ph \in [0..(ParentCells - 1) -> CellHeights],
        removed \in {{}} \cup {{k} : k \in 1..MaxEntity},
        burgCell \in BurgCells :
       LET g == [points |-> generateGrid(ParentCells).points,
                 cells |-> [c |-> generateGrid(ParentCells).cells.c, h |-> ph,
                            temp |-> [k \in DOMAIN ph |-> 5 + k],
                            prec |-> [k \in DOMAIN ph |-> 7 + k]]]
       IN parentMap = [grid |-> g, pack |-> ParentPack(g, removed, burgCell),
                       notes |-> <<"note">>]
  /\ \E h \in [0..(GridCells - 1) -> CellHeights] :
       grid = [points |-> generateGrid(GridCells).points,
               cells |-> [c |-> generateGrid(GridCells).cells.c, h |-> h,
                          temp |-> [k \in DOMAIN h |-> 5], prec |-> [k \in DOMAIN h |-> 7]]]
  /\ pack = reGraph(grid, DOMAIN grid.points)
  /\ notes = parentMap.notes
  /\ before = [parentMap |-> parentMap, grid |-> grid, pack |-> pack, notes |-> notes]
  /\ hBefore = <<>>
  /\ ran = {}

NextRestore ==
  \/ RestoreSecondaryCellData
  \/ RestoreSecondaryCellDataThrows
  \/ RestoreCultures
  \/ RestoreBurgs
  \/ RestoreStates
  \/ RestoreReligions
  \/ RestoreProvinces
  \/ RestoreMarkers

SpecRestore == InitRestore /\ [][NextRestore]_vars

----------------------------------------------------------------------------
(* Properties *)

\* the restore phase has run to the end of restoreMarkers
Restored == pc = "restoreZones"

\* the parent's collection behind each per-cell overlay field
collectionOf ==
  [culture |-> "cultures", state |-> "states", province |-> "provinces",
   religion |-> "religions"]

\* the parent burg k as it was when resample was called
burgBefore(k) == before.parentMap.pack.burgs[k]

\* the parent burgs restoreBurgs tries to place: not the sentinel, not
\* removed, projected inside the map
contenders ==
  {k \in DOMAIN before.parentMap.pack.burgs :
     /\ burgBefore(k).i # 0
     /\ ~burgBefore(k).removed
     /\ isInMap(burgQuery(arg, burgBefore(k))[1], burgQuery(arg, burgBefore(k))[2])}

\* the new land cells nearest to the projected burg k
snap(k) ==
  {d[3] : d \in QuadtreeFind(groupCellsByType(pack).land,
                             burgQuery(arg, burgBefore(k))[1],
                             burgQuery(arg, burgBefore(k))[2])}

\* C1: resample does not mutate the parent map: every record and collection
\* of parentMap keeps the value it had when resample was called.
C1_ParentMapNotMutated == parentMap = before.parentMap

\* C2: after the restore phase every state, culture, province and religion
\* with i > 0 that is not removed owns at least one new cell, and every
\* parent entity that was not removed and whose index is on no new cell is
\* removed with its lock cleared.
C2_EntityPresence ==
  Restored =>
    \A kind \in DOMAIN collectionOf :
      LET coll == pack[collectionOf[kind]]
          was == before.parentMap.pack[collectionOf[kind]]
          field == pack.cells[kind]
      IN /\ \A k \in DOMAIN coll :
              (coll[k].i > 0 /\ ~coll[k].removed) =>
                 \E c \in DOMAIN field : field[c] = coll[k].i
         /\ \A k \in DOMAIN was :
              (was[k].i > 0 /\ ~was[k].removed /\ was[k].i \notin SetOf(field)) =>
                 (coll[k].removed /\ ~coll[k].lock)

\* C2 witness: one state survived on its cells and another, alive and locked
\* in the parent, lost all its cells and was removed.
C2_Witness ==
  /\ Restored
  /\ \E k1, k2 \in 1..MaxEntity :
       /\ ~pack.states[k1].removed
       /\ k1 \in SetOf(pack.cells.state)
       /\ ~before.parentMap.pack.states[k2].removed
       /\ before.parentMap.pack.states[k2].lock
       /\ pack.states[k2].removed

\* C3: once the burgs are migrated, every cell of the new pack holds at most
\* one burg that is not removed, and pack.cells.burg of the cell is 0 or the
\* index of that burg.
C3_BurgUniqueness ==
  "burgs" \in DOMAIN pack =>
    \A c \in DOMAIN pack.cells.i :
      LET here == {k \in DOMAIN pack.burgs :
                     pack.burgs[k].i # 0 /\ ~pack.burgs[k].removed /\ pack.burgs[k].cell = c}
      IN /\ Cardinality(here) <= 1
         /\ pack.cells.burg[c] = 0 \/ \E k \in here : pack.burgs[k].i = pack.cells.burg[c]

\* C3 witness: two parent burgs were projected onto the same single nearest
\* land cell; one holds the cell and the other was removed.
C3_Witness ==
  /\ "burgs" \in DOMAIN pack
  /\ \E k1, k2 \in contenders :
       /\ k1 # k2
       /\ snap(k1) = snap(k2)
       /\ Cardinality(snap(k1)) = 1
       /\ ~pack.burgs[k1].removed
       /\ pack.burgs[k1].cell \in snap(k1)
       /\ pack.cells.burg[pack.burgs[k1].cell] = k1
       /\ pack.burgs[k2].removed

\* C4: when several parent burgs that are not removed are projected inside
\* the map and snap to the same new land cell, exactly one of them survives,
\* the first in the order of the parent burg list; it holds the cell and the
\* others are removed.
C4_FirstBurgWins ==
  "burgs" \in DOMAIN pack =>
    \A c \in DOMAIN pack.cells.i :
      LET rivals == {k \in contenders : snap(k) = {c}}
          first == CHOOSE k \in rivals : \A j \in rivals : k <= j
      IN (Cardinality(rivals) >= 2 /\ \A k \in contenders \ rivals : c \notin snap(k)) =>
           /\ ~pack.burgs[first].removed
           /\ pack.burgs[first].cell = c
           /\ pack.cells.burg[c] = first
           /\ \A k \in rivals \ {first} : pack.burgs[k].removed

\* C5: restoreMarkers deletes every marker projected outside the map from the
\* new map's markers and does not rewrite its x, y and cell; a marker
\* projected inside the map stays, with the rounded projected coordinates.
C5_DeletedMarkersUntouched ==
  Restored =>
    \A k \in DOMAIN before.parentMap.pack.markers :
      LET marker == before.parentMap.pack.markers[k]
          xy == projection(arg, marker.x, marker.y)
      IN IF isInMap(xy[1], xy[2])
           THEN \E j \in DOMAIN pack.markers :
                  /\ pack.markers[j].i = marker.i
                  /\ pack.markers[j].x = rn(xy[1])
                  /\ pack.markers[j].y = rn(xy[2])
           ELSE /\ \A j \in DOMAIN pack.markers : pack.markers[j].i # marker.i
                /\ parentMap.pack.markers[k].x = marker.x
                /\ parentMap.pack.markers[k].y = marker.y
                /\ parentMap.pack.markers[k].cell = marker.cell

\* C6: smoothHeightmap keeps the class of every lattice point: a point below
\* 20 before smoothing is at most 19 after it, and a point at 20 or more
\* before is at 20 or more after.
C6_SmoothingKeepsClass ==
  (pc = "line74" /\ "smoothHeightmap" \in ran) =>
    \A k \in DOMAIN grid.cells.h :
      /\ hBefore[k] < 20 => grid.cells.h[k] <= 19
      /\ hBefore[k] >= 20 => grid.cells.h[k] >= 20

\* C6 witness: a land point was clamped to 20 after reading a water
\* neighbour of lower index that smoothing had already changed.
C6_Witness ==
  /\ pc = "line74"
  /\ "smoothHeightmap" \in ran
  /\ \E k \in DOMAIN grid.cells.h :
       /\ hBefore[k] > 20
       /\ grid.cells.h[k] = 20
       /\ \E j \in grid.cells.c[k] :
            j < k /\ hBefore[j] < 20 /\ grid.cells.h[j] # hBefore[j]

\* C7: when the parent map has no cells and resample throws, the ambient
\* grid, pack and notes are what they were before the call.
C7_AbortLeavesMap ==
  pc = "thrown" => (grid = before.grid /\ pack = before.pack /\ notes = before.notes)

\* C8: the state, culture, province, religion and burg collections of the new
\* map have the length of the parent's, and the entity at every position has
\* the i of the parent entity at that position.
C8_IndexStable ==
  \A name \in {"cultures", "states", "provinces", "religions", "burgs"} \cap DOMAIN pack :
    /\ DOMAIN pack[name] = DOMAIN before.parentMap.pack[name]
    /\ \A k \in DOMAIN pack[name] : pack[name][k].i = before.parentMap.pack[name][k].i

\* C8 witness: after the restore phase one culture was carried over removed,
\* one state was newly removed, and one burg was moved to a new cell.
C8_Witness ==
  /\ Restored
  /\ \E k \in 1..MaxEntity :
       before.parentMap.pack.cultures[k].removed /\ pack.cultures[k] = before.parentMap.pack.cultures[k]
  /\ \E k \in 1..MaxEntity :
       ~before.parentMap.pack.states[k].removed /\ pack.states[k].removed
  /\ \E k \in 1..MaxEntity :
       /\ ~pack.burgs[k].removed
       /\ pack.burgs[k].x # burgBefore(k).x
       /\ pack.cells.burg[pack.burgs[k].cell] = k

\* C9: a parent burg that is not removed and is projected inside the map is
\* placed on a nearest new land cell whenever the new pack has a land cell,
\* whatever the cell's id, unless an earlier burg already holds that cell.
C9_BurgPlacedOnLand ==
  "burgs" \in DOMAIN pack =>
    \A k \in contenders :
      groupCellsByType(pack).land # {} =>
        \/ ~pack.burgs[k].removed /\ pack.burgs[k].cell \in snap(k)
        \/ \E c \in snap(k) : pack.cells.burg[c] \in 1..(k - 1)

\* C10: smoothing runs exactly when the smoothHeightmap field of the options
\* argument is true, and river depression exactly when its depressRivers
\* field is true.
C10_ArgumentControlsSteps ==
  pc = "reGraph" =>
    /\ ("smoothHeightmap" \in ran) <=> arg.smoothHeightmap
    /\ ("depressRivers" \in ran) <=> arg.depressRivers

====
